---- MODULE Spec2Model ----
(***************************************************************************)
(* Model of the llm_generation_server element / formatter / component      *)
(* update-and-sync protocol.                                               *)
(*                                                                         *)
(*   Spec      SoftmaxFormatter elements: constructor, possibilities       *)
(*             accessor and setter, assign_words_to_probs, format,         *)
(*             add_endpoint (softmax_formatter.py), one call at a time.    *)
(*   SpecConc  the same setter and format() run by two threads, one        *)
(*             statement per step.                                         *)
(*   SpecSort  assign_words_to_probs and create_continuations as pure      *)
(*             functions of bounded inputs.                                *)
(*   SpecNTP   NextTokenPredictionComponent: initialize_vocab,             *)
(*             initialize_context, fetch, select                           *)
(*             (next_token_prediction_component.py).                       *)
(*   SpecRace  two select requests on one component, one statement per     *)
(*             step.                                                       *)
(*   SpecMetrics  MetricsMixin: constructor, metric checkboxes,            *)
(*             compute_n_display_metrics_on_predicted / _on_target         *)
(*             (metrics_mixin.py).                                         *)
(*                                                                         *)
(* Python values: None / "attribute not set" is the empty sequence <<>>    *)
(* and a present value x is <<x>>.  Probabilities are integers counted in  *)
(* tenths (0.7 is 7), so that x[0] * 100 is an integer product.  Metric     *)
(* results and bar heights are integers counted in hundredths (Num).       *)
(***************************************************************************)
EXTENDS Integers, Sequences, FiniteSets, TLC

VARIABLES
    changed,        \* SoftmaxFormatter.changed, per element
    possibilities,  \* SoftmaxFormatter._possibilities, per element
    formatted,      \* what format() last returned for the element (None before)
    endpoints,      \* the app's registered endpoints (Server.add_endpoint)
    lastOp,         \* the call that produced the current state, with its inputs
    pc,             \* SpecConc, SpecRace: the statement each thread executes next
    frame,          \* SpecConc, SpecRace: each thread's self and locals
    call,           \* SpecSort: a call of a pure function, inputs and result
    context,        \* NextTokenPredictionComponent._context (None: not set)
    word_vocab,     \* NextTokenPredictionComponent.word_vocab
    response,       \* what the last fetch / select gave back to the caller
    c0,             \* history: the argument of the last initialize_context
    selected,       \* history: the tokens appended since then, in order
    stable,         \* history: the payload last returned for the present
                    \* context and vocabulary (None: none yet)
    metrics_on_generated_text, \* MetricsMixin._metrics_on_generated_text
    metrics_on_probs,          \* MetricsMixin._metrics_on_probs
    ordering,       \* MetricsMixin._ordering
    select_metrics, \* MetricsMixin._select_metrics_elements[name].selected
    piece_infos     \* the piece infos of the two display BarChartElements

elemVars == <<changed, possibilities, formatted, endpoints>>
concVars == <<pc, frame>>
sortVars == <<call>>
ntpVars == <<context, word_vocab, response, c0, selected, stable>>
metricVars == <<metrics_on_generated_text, metrics_on_probs, ordering,
                select_metrics, piece_infos>>
vars == <<changed, possibilities, formatted, endpoints, lastOp, pc, frame,
          call, context, word_vocab, response, c0, selected, stable,
          metricVars>>

----------------------------------------------------------------------------
(* Bounds *)

\* number of SoftmaxFormatter elements
NElems == 2
\* longest probability vector and longest vocabulary of SpecSort
MaxLen == 3
\* largest n_largest_tokens_to_return of SpecSort
MaxN == 3
\* n_largest_tokens_to_return of the component of SpecNTP
NTop == 2
\* longest context of SpecNTP, in tokens
MaxContext == 3

----------------------------------------------------------------------------
(* Python helpers *)

None == <<>>
Some(x) == <<x>>

Min(a, b) == IF a < b THEN a ELSE b

\* zip(a, b): stops at the shorter argument
zip(a, b) == [i \in 1..Min(Len(a), Len(b)) |-> <<a[i], b[i]>>]

RemoveAt(s, i) == SubSeq(s, 1, i - 1) \o SubSeq(s, i + 1, Len(s))

\* index of the first element of s whose key x[0] is maximal
FirstMaxIndex(s) ==
    CHOOSE i \in 1..Len(s) :
        /\ \A j \in 1..Len(s) : s[j][1] <= s[i][1]
        /\ \A j \in 1..(i - 1) : s[j][1] < s[i][1]

\* heapq.nlargest(n, s, key=lambda x: x[0]), i.e.
\* sorted(s, key=key, reverse=True)[:n]: descending by key, equal keys in
\* their order of occurrence
RECURSIVE nlargest(_, _)
nlargest(n, s) ==
    IF n <= 0 \/ s = <<>>
    THEN <<>>
    ELSE LET i == FirstMaxIndex(s)
         IN  <<s[i]>> \o nlargest(n - 1, RemoveAt(s, i))

----------------------------------------------------------------------------
(* SoftmaxFormatter *)

Elems == 1..NElems
Threads == {"writer", "reader"}

\* constructor arguments of the elements
self(e) == [n_largest_tokens_to_return |-> e, long_tokens |-> (e = 2)]
endpoint_url == [e \in Elems |-> IF e = 1 THEN "/select_1" ELSE "/select_2"]
name == [e \in Elems |-> IF e = 1 THEN "softmax_1" ELSE "softmax_2"]

\* dataclass Continuation(is_long, content, probs)
Continuation(is_long, content, probs) ==
    [is_long |-> is_long, content |-> content, probs |-> probs]

assign_words_to_probs(slf, probs, vocab) ==
    LET n_largest == nlargest(slf.n_largest_tokens_to_return, zip(probs, vocab))
    IN  [k \in 1..Len(n_largest) |->
            Continuation(slf.long_tokens, n_largest[k][2], <<n_largest[k][1] * 100>>)]

\* FormattedContext(name, type, content)
FormattedContext(e, poss) ==
    [name |-> name[e], type |-> "softmax",
     content |-> [possibilities |-> poss, address |-> endpoint_url[e]]]

\* inputs of the element specification
ElemVocab == <<"a", "b">>
ElemProbs == {<<1, 7>>, <<2, 2>>}
ElemValues(e) == {assign_words_to_probs(self(e), p, ElemVocab) : p \in ElemProbs}

\* the record of a call: the operation, its element and the element's flag
\* before the call
Op(op, e) ==
    [op |-> op, elem |-> e, changedBefore |-> changed[e]]

\* Formatter.__init__ (super().__init__(**kwargs)): the flag's first value
FormatterBaseInit == changed \in [Elems -> BOOLEAN]

\* SoftmaxFormatter.__init__
InitElem ==
    /\ FormatterBaseInit
    /\ possibilities = [e \in Elems |-> <<>>]
    /\ formatted = [e \in Elems |-> None]
    /\ endpoints = {}
    /\ lastOp = [op |-> "init", elem |-> 0, changedBefore |-> FALSE]

\* the threads of SpecConc are not running
ConcIdle ==
    /\ pc = [t \in Threads |-> "idle"]
    /\ frame = [t \in Threads |-> <<>>]

\* no pure-function call of SpecSort is under way
SortIdle == call = [fn |-> "none"]

\* no MetricsMixin constructed
MetricsIdle ==
    /\ metrics_on_generated_text = <<>>
    /\ metrics_on_probs = <<>>
    /\ ordering = <<>>
    /\ select_metrics = <<>>
    /\ piece_infos = <<>>

\* no NextTokenPredictionComponent of SpecNTP exists
NTPIdle ==
    /\ context = None
    /\ word_vocab = None
    /\ response = [result |-> "none"]
    /\ c0 = <<>>
    /\ selected = <<>>
    /\ stable = None

\* what the calls on an element leave alone
offElem == <<pc, frame, call, context, word_vocab, response, c0, selected, stable,
          metricVars>>

\* mutant: the setter marks the element only when the value differs
possibilities_setter_if_different(e, value) ==
    /\ changed' = [changed EXCEPT ![e] = @ \/ (value # possibilities[e])]
    /\ possibilities' = [possibilities EXCEPT ![e] = value]

\* mutant: the setter clears the flag instead of setting it
possibilities_setter_clears(e, value) ==
    /\ changed' = [changed EXCEPT ![e] = FALSE]
    /\ possibilities' = [possibilities EXCEPT ![e] = value]

\* @possibilities.setter
possibilities_setter(e, value) ==
    /\ changed' = [changed EXCEPT ![e] = TRUE]
    /\ possibilities' = [possibilities EXCEPT ![e] = value]

\* element.possibilities = value
SetPossibilities(e, value) ==
    /\ possibilities_setter(e, value)
    /\ lastOp' = Op("setter", e)
    /\ UNCHANGED <<formatted, endpoints>>
    /\ UNCHANGED offElem

\* element.assign_words_to_probs(probs, word_vocab): returns a list and
\* touches no attribute of the element
AssignWordsToProbs(e) ==
    /\ lastOp' = Op("assign_words_to_probs", e)
    /\ UNCHANGED elemVars
    /\ UNCHANGED offElem

\* @property possibilities returns the list object itself (no copy), so the
\* caller can change the payload in place: element.possibilities.clear()
ClearInPlace(e) ==
    /\ possibilities[e] # <<>>
    /\ possibilities' = [possibilities EXCEPT ![e] = <<>>]
    /\ lastOp' = Op("clear_in_place", e)
    /\ UNCHANGED <<changed, formatted, endpoints>>
    /\ UNCHANGED offElem

\* mutant: format() serializes without touching the flag
format_keeps_flag(e) ==
    /\ formatted' = [formatted EXCEPT ![e] = Some(FormattedContext(e, possibilities[e]))]
    /\ lastOp' = Op("format", e)
    /\ UNCHANGED <<changed, possibilities, endpoints>>
    /\ UNCHANGED offElem

\* element.format()
format(e) ==
    /\ changed' = [changed EXCEPT ![e] = FALSE]
    /\ formatted' = [formatted EXCEPT ![e] = Some(FormattedContext(e, possibilities[e]))]
    /\ lastOp' = Op("format", e)
    /\ UNCHANGED <<possibilities, endpoints>>
    /\ UNCHANGED offElem

\* element.add_endpoint(app)
add_endpoint(e) ==
    /\ endpoints' = endpoints \cup {[url |-> endpoint_url[e], methods |-> <<"POST">>]}
    /\ lastOp' = Op("add_endpoint", e)
    /\ UNCHANGED <<changed, possibilities, formatted>>
    /\ UNCHANGED offElem

Init == InitElem /\ ConcIdle /\ SortIdle /\ NTPIdle /\ MetricsIdle

Next ==
    \/ \E e \in Elems : \E value \in ElemValues(e) : SetPossibilities(e, value)
    \/ \E e \in Elems : AssignWordsToProbs(e)
    \/ \E e \in Elems : ClearInPlace(e)
    \/ \E e \in Elems : format(e)
    \/ \E e \in Elems : add_endpoint(e)

Spec == Init /\ [][Next]_vars

----------------------------------------------------------------------------
(* SpecConc: a request thread assigning possibilities while another runs   *)
(* the response pass; the code takes no lock, so the threads interleave    *)
(* between the statements of the setter and of format().                   *)

\* what the statements of the two threads leave alone
offConc == <<call, context, word_vocab, response, c0, selected, stable,
          metricVars>>

\* setter, line 38: self.changed = True
SetterMark(e, value) ==
    /\ pc["writer"] = "idle"
    /\ changed' = [changed EXCEPT ![e] = TRUE]
    /\ pc' = [pc EXCEPT !["writer"] = "store"]
    /\ frame' = [frame EXCEPT !["writer"] = <<e, value>>]
    /\ lastOp' = Op("setter_mark", e)
    /\ UNCHANGED <<possibilities, formatted, endpoints>>
    /\ UNCHANGED offConc

\* setter, line 39: self._possibilities = value
SetterStore ==
    /\ pc["writer"] = "store"
    /\ LET e == frame["writer"][1]
           value == frame["writer"][2]
       IN  /\ possibilities' = [possibilities EXCEPT ![e] = value]
           /\ lastOp' = Op("setter_store", e)
    /\ pc' = [pc EXCEPT !["writer"] = "idle"]
    /\ frame' = [frame EXCEPT !["writer"] = <<>>]
    /\ UNCHANGED <<changed, formatted, endpoints>>
    /\ UNCHANGED offConc

\* format, line 48: self.changed = False
FormatClear(e) ==
    /\ pc["reader"] = "idle"
    /\ changed' = [changed EXCEPT ![e] = FALSE]
    /\ pc' = [pc EXCEPT !["reader"] = "read"]
    /\ frame' = [frame EXCEPT !["reader"] = <<e>>]
    /\ lastOp' = Op("format_clear", e)
    /\ UNCHANGED <<possibilities, formatted, endpoints>>
    /\ UNCHANGED offConc

\* format, lines 49-53: return FormattedContext(... self.possibilities ...)
FormatRead ==
    /\ pc["reader"] = "read"
    /\ LET e == frame["reader"][1]
       IN  /\ formatted' = [formatted EXCEPT ![e] = Some(FormattedContext(e, possibilities[e]))]
           /\ lastOp' = Op("format_read", e)
    /\ pc' = [pc EXCEPT !["reader"] = "idle"]
    /\ frame' = [frame EXCEPT !["reader"] = <<>>]
    /\ UNCHANGED <<changed, possibilities, endpoints>>
    /\ UNCHANGED offConc

InitConc == InitElem /\ ConcIdle /\ SortIdle /\ NTPIdle /\ MetricsIdle

NextConc ==
    \/ \E e \in Elems : \E value \in ElemValues(e) : SetterMark(e, value)
    \/ SetterStore
    \/ \E e \in Elems : FormatClear(e)
    \/ FormatRead

SpecConc == InitConc /\ [][NextConc]_vars

----------------------------------------------------------------------------
(* SpecSort: assign_words_to_probs and create_continuations applied to     *)
(* bounded probability vectors and vocabularies.                           *)

\* a call that returned v, a call that raised err
Returned(v) == [error |-> "none", value |-> v]
Raised(err) == [error |-> err, value |-> <<>>]

\* next_token_prediction_component.py: dataclass Continuation(token, prob)
TokenContinuation(token, prob) == [token |-> token, prob |-> prob]

\* mutant: sorted(zip(...), key=...)[::-1][:n], which reverses equal keys
create_continuations_reversed_ties(slf, probs) ==
    IF slf.word_vocab = None
    THEN Raised("TypeError")
    ELSE LET pairs == zip(probs, slf.word_vocab[1])
             rev == [i \in 1..Len(pairs) |-> pairs[Len(pairs) + 1 - i]]
             n_largest == nlargest(slf.n_largest_tokens_to_return, rev)
         IN  Returned([k \in 1..Len(n_largest) |->
                 TokenContinuation(n_largest[k][2], n_largest[k][1] * 100)])

\* NextTokenPredictionComponent.create_continuations; zip(probs, None)
\* raises TypeError while word_vocab is still None
create_continuations(slf, probs) ==
    IF slf.word_vocab = None
    THEN Raised("TypeError")
    ELSE LET n_largest == nlargest(slf.n_largest_tokens_to_return,
                                   zip(probs, slf.word_vocab[1]))
         IN  Returned([k \in 1..Len(n_largest) |->
                 TokenContinuation(n_largest[k][2], n_largest[k][1] * 100)])

\* inputs of SpecSort: probabilities in tenths, vocabulary entries
ProbVals == {1, 2, 7}
Words == {"a", "b", "c"}
SeqsUpTo(S, n) == UNION {[1..k -> S] : k \in 0..n}

\* no SoftmaxFormatter exists
ElemIdle ==
    /\ changed = <<>>
    /\ possibilities = <<>>
    /\ formatted = <<>>
    /\ endpoints = {}

\* what the pure functions leave alone: everything
offSort == <<changed, possibilities, formatted, endpoints, lastOp, pc, frame,
             context, word_vocab, response, c0, selected, stable,
          metricVars>>

InitSort ==
    /\ MetricsIdle
    /\ ElemIdle /\ ConcIdle /\ NTPIdle
    /\ lastOp = [op |-> "init"]
    /\ call \in {[fn |-> "input", n |-> n, probs |-> p, vocab |-> v, out |-> None] :
                    n \in 0..MaxN, p \in SeqsUpTo(ProbVals, MaxLen),
                    v \in SeqsUpTo(Words, MaxLen)}

\* SoftmaxFormatter(n, ...).assign_words_to_probs(probs, vocab)
CallAssignWordsToProbs ==
    /\ call.fn = "input"
    /\ call' = [call EXCEPT
                  !.fn = "assign_words_to_probs",
                  !.out = Some(Returned(assign_words_to_probs(
                              [n_largest_tokens_to_return |-> call.n, long_tokens |-> FALSE],
                              call.probs, call.vocab)))]
    /\ UNCHANGED offSort

\* component.create_continuations(probs), with word_vocab = vocab
CallCreateContinuations ==
    /\ call.fn = "input"
    /\ call' = [call EXCEPT
                  !.fn = "create_continuations",
                  !.out = Some(create_continuations(
                              [n_largest_tokens_to_return |-> call.n,
                               word_vocab |-> Some(call.vocab)],
                              call.probs))]
    /\ UNCHANGED offSort

NextSort ==
    \/ CallAssignWordsToProbs
    \/ CallCreateContinuations

SpecSort == InitSort /\ [][NextSort]_vars

----------------------------------------------------------------------------
(* SpecNTP: one NextTokenPredictionComponent.  A context is a sequence of  *)
(* tokens.  The three abstract hooks are those of a concrete component:    *)
(* a fixed vocabulary, a joining rule, and a model whose probabilities     *)
(* are a function of the context and whose call may raise.                 *)

\* initialize_vocab: the vocabulary it stores in word_vocab
Vocab == <<"a", "b", "c">>

\* append_to_context(context, post_token): the joining rule
append_to_context(ctx, post_token) == Append(ctx, post_token)

\* the external model: probabilities (tenths) of the vocabulary entries
ProbRow == <<1, 7, 2>>
predict(ctx) ==
    [i \in 1..Len(Vocab) |-> ProbRow[((i + Len(ctx)) % Len(ProbRow)) + 1]]

\* get_next_token_predictions(context), when the model answers
get_next_token_predictions(slf, ctx) == create_continuations(slf, predict(ctx))

\* NextTokenPredictionComponent.format_context
format_context(ctx) == ctx

\* the component object: __init__(n_largest_tokens_to_return) and word_vocab
component == [n_largest_tokens_to_return |-> NTop, word_vocab |-> word_vocab]

\* data.get('token') of a body without a token: Python's None, written as a
\* string so that a context stays a sequence of strings
MissingToken == "None"
RequestTokens == {"a", "b", "zzz", MissingToken}
InitialContexts == {<<>>, <<"a">>}

\* jsonify(dict(result="success", context=..., continuations=...)), and a
\* request that ended in an exception instead of a response
Success(ctx, continuations) ==
    [result |-> "success", context |-> ctx, continuations |-> continuations,
     error |-> "none"]
Raise(err) ==
    [result |-> "raise", context |-> <<>>, continuations |-> <<>>, error |-> err]
NoResponse ==
    [result |-> "none", context |-> <<>>, continuations |-> <<>>, error |-> "none"]

Payload(r) == [context |-> r.context, continuations |-> r.continuations]

\* the record of a call on the component
NTPOp(op, token) ==
    [op |-> op, token |-> token, contextBefore |-> context,
     hadStable |-> (stable # None)]

\* the hook call of lines 44 and 55
Predictions(ctx, predictRaises) ==
    IF predictRaises
    THEN Raised("get_next_token_predictions")
    ELSE get_next_token_predictions(component, ctx)

\* mutant: fetch answers for the initial context, not the current one
fetch_response_initial(predictRaises) ==
    IF context = None
    THEN Raise("AttributeError")
    ELSE LET r == Predictions(c0, predictRaises)
         IN  IF r.error # "none"
             THEN Raise(r.error)
             ELSE Success(format_context(c0), r.value)

\* fetch, lines 41-45; reading self._context raises AttributeError before
\* initialize_context
fetch_response(predictRaises) ==
    IF context = None
    THEN Raise("AttributeError")
    ELSE LET r == Predictions(context[1], predictRaises)
         IN  IF r.error # "none"
             THEN Raise(r.error)
             ELSE Success(format_context(context[1]), r.value)

\* mutant: select answers with the predictions of the context before the append
select_response_stale(old, new, predictRaises) ==
    LET r == Predictions(old, predictRaises)
    IN  IF r.error # "none"
        THEN Raise(r.error)
        ELSE Success(format_context(new), r.value)

\* select, lines 52-56, after self._context = new
select_response(old, new, predictRaises) ==
    LET r == Predictions(new, predictRaises)
    IN  IF r.error # "none"
        THEN Raise(r.error)
        ELSE Success(format_context(new), r.value)

\* what the calls on the component leave alone
offNTP == <<changed, possibilities, formatted, endpoints, pc, frame, call,
          metricVars>>

\* NextTokenPredictionComponent.__init__
InitNTP ==
    /\ MetricsIdle
    /\ ElemIdle /\ ConcIdle /\ SortIdle
    /\ context = None
    /\ word_vocab = None
    /\ response = NoResponse
    /\ c0 = <<>>
    /\ selected = <<>>
    /\ stable = None
    /\ lastOp = [op |-> "init", token |-> "", contextBefore |-> None, hadStable |-> FALSE]

\* initialize_vocab(), called once at startup (app.py:9)
initialize_vocab ==
    /\ word_vocab = None
    /\ word_vocab' = Some(Vocab)
    /\ stable' = None
    /\ lastOp' = NTPOp("initialize_vocab", "")
    /\ UNCHANGED <<context, response, c0, selected>>
    /\ UNCHANGED offNTP

\* initialize_context(context)
initialize_context(ctx) ==
    /\ context' = Some(ctx)
    /\ c0' = ctx
    /\ selected' = <<>>
    /\ stable' = None
    /\ lastOp' = NTPOp("initialize_context", "")
    /\ UNCHANGED <<word_vocab, response>>
    /\ UNCHANGED offNTP

\* GET /fetch
fetch(predictRaises) ==
    /\ response' = fetch_response(predictRaises)
    /\ stable' = IF response'.result = "success" THEN Some(Payload(response')) ELSE stable
    /\ lastOp' = NTPOp("fetch", "")
    /\ UNCHANGED <<context, word_vocab, c0, selected>>
    /\ UNCHANGED offNTP

\* mutant: select stores the new context only once the predictions are there
select_commits_last(post_token, appendRaises, predictRaises) ==
    /\ context # None => Len(context[1]) < MaxContext
    /\ lastOp' = NTPOp("select", post_token)
    /\ IF context = None
       THEN /\ response' = Raise("AttributeError")
            /\ UNCHANGED <<context, selected, stable>>
       ELSE IF appendRaises
       THEN /\ response' = Raise("append_to_context")
            /\ UNCHANGED <<context, selected, stable>>
       ELSE LET new == append_to_context(context[1], post_token)
            IN  /\ response' = select_response(context[1], new, predictRaises)
                /\ IF response'.result = "success"
                   THEN /\ context' = Some(new)
                        /\ selected' = Append(selected, post_token)
                        /\ stable' = Some(Payload(response'))
                   ELSE UNCHANGED <<context, selected, stable>>
    /\ UNCHANGED <<word_vocab, c0>>
    /\ UNCHANGED offNTP

\* POST /select {token: post_token}
select(post_token, appendRaises, predictRaises) ==
    /\ context # None => Len(context[1]) < MaxContext
    /\ lastOp' = NTPOp("select", post_token)
    /\ IF context = None
       THEN /\ response' = Raise("AttributeError")
            /\ UNCHANGED <<context, selected, stable>>
       ELSE IF appendRaises
       THEN /\ response' = Raise("append_to_context")
            /\ UNCHANGED <<context, selected, stable>>
       ELSE LET new == append_to_context(context[1], post_token)
            IN  /\ context' = Some(new)
                /\ selected' = Append(selected, post_token)
                /\ response' = select_response(context[1], new, predictRaises)
                /\ stable' = IF response'.result = "success"
                             THEN Some(Payload(response'))
                             ELSE None
    /\ UNCHANGED <<word_vocab, c0>>
    /\ UNCHANGED offNTP

NextNTP ==
    \/ initialize_vocab
    \/ \E ctx \in InitialContexts : initialize_context(ctx)
    \/ \E predictRaises \in BOOLEAN : fetch(predictRaises)
    \/ \E post_token \in RequestTokens : \E appendRaises, predictRaises \in BOOLEAN :
          select(post_token, appendRaises, predictRaises)

SpecNTP == InitNTP /\ [][NextNTP]_vars

----------------------------------------------------------------------------
(* SpecRace: two select requests on one component, one statement per step.  *)
(* select holds no lock (lines 47-56), so the threads of the server         *)
(* interleave between the read of self._context on the right of line 50,    *)
(* the assignment of line 50, and the two reads of lines 54 and 55.         *)

Requests == {"r1", "r2"}

RaceOp(op, t, token) == [op |-> op, request |-> t, token |-> token]

offRace == <<changed, possibilities, formatted, endpoints, call,
          metricVars>>

\* lines 48-50, right-hand side: post_token = data.get('token'), and the
\* arguments self._context, post_token of append_to_context are evaluated
SelectRead(t, post_token) ==
    /\ pc[t] = "idle"
    \* no more requests than tokens that fit the longest context
    /\ Len(c0) + Len(selected) + Cardinality({u \in Requests : pc[u] = "store"}) < MaxContext
    /\ frame' = [frame EXCEPT ![t] = [token |-> post_token, read |-> context[1],
                                      formatted |-> <<>>]]
    /\ pc' = [pc EXCEPT ![t] = "store"]
    /\ response' = [response EXCEPT ![t] = NoResponse]
    /\ lastOp' = RaceOp("select_read", t, post_token)
    /\ UNCHANGED <<context, word_vocab, c0, selected, stable>>
    /\ UNCHANGED offRace

\* line 50, the assignment: self._context = append_to_context(<read>, post_token)
SelectStore(t) ==
    /\ pc[t] = "store"
    /\ context' = Some(append_to_context(frame[t].read, frame[t].token))
    /\ selected' = Append(selected, frame[t].token)
    /\ pc' = [pc EXCEPT ![t] = "format"]
    /\ lastOp' = RaceOp("select_store", t, frame[t].token)
    /\ UNCHANGED <<frame, word_vocab, response, c0, stable>>
    /\ UNCHANGED offRace

\* line 54: context=self.format_context(self._context)
SelectFormat(t) ==
    /\ pc[t] = "format"
    /\ frame' = [frame EXCEPT ![t].formatted = format_context(context[1])]
    /\ pc' = [pc EXCEPT ![t] = "predict"]
    /\ lastOp' = RaceOp("select_format", t, frame[t].token)
    /\ UNCHANGED <<context, word_vocab, response, c0, selected, stable>>
    /\ UNCHANGED offRace

\* lines 55, 52: continuations=self.get_next_token_predictions(self._context),
\* return jsonify(...)
SelectPredict(t) ==
    /\ pc[t] = "predict"
    /\ LET r == Predictions(context[1], FALSE)
       IN  response' = [response EXCEPT ![t] =
                IF r.error # "none" THEN Raise(r.error)
                ELSE Success(frame[t].formatted, r.value)]
    /\ frame' = [frame EXCEPT ![t] = <<>>]
    /\ pc' = [pc EXCEPT ![t] = "idle"]
    /\ lastOp' = RaceOp("select_predict", t, frame[t].token)
    /\ UNCHANGED <<context, word_vocab, c0, selected, stable>>
    /\ UNCHANGED offRace

\* the component of app.py after initialize_vocab and initialize_context
InitRace ==
    /\ MetricsIdle
    /\ ElemIdle
    /\ SortIdle
    /\ pc = [t \in Requests |-> "idle"]
    /\ frame = [t \in Requests |-> <<>>]
    /\ word_vocab = Some(Vocab)
    /\ c0 \in InitialContexts
    /\ context = Some(c0)
    /\ selected = <<>>
    /\ stable = None
    /\ response = [t \in Requests |-> NoResponse]
    /\ lastOp = RaceOp("init", "", "")

NextRace ==
    \/ \E t \in Requests : \E post_token \in RequestTokens : SelectRead(t, post_token)
    \/ \E t \in Requests : SelectStore(t)
    \/ \E t \in Requests : SelectFormat(t)
    \/ \E t \in Requests : SelectPredict(t)

SpecRace == InitRace /\ [][NextRace]_vars

----------------------------------------------------------------------------
(* SpecMetrics: MetricsMixin (metrics_mixin.py).                            *)
(* A dict is the sequence of its items in insertion order, with distinct    *)
(* keys.  A number x is held as the integer x * 100 (Num), so that          *)
(* result * 100 stays an integer product: a result of 0.37 is 37 and a bar  *)
(* height of 100 is 10000.                                                  *)

Num(x) == x * 100

\* the literal 100 of lines 163 and 165
FullBar == 100

Keys(d) == [i \in 1..Len(d) |-> d[i].name]
Has(d, key) == \E i \in 1..Len(d) : d[i].name = key
Get(d, key) == d[CHOOSE i \in 1..Len(d) : d[i].name = key]

\* GeneratedTextMetric(format, scalable, metric_calculation), held under its key
GeneratedTextMetric(key, fmt, scalable, metric_calculation) ==
    [name |-> key, format |-> fmt, scalable |-> scalable,
     metric_calculation |-> metric_calculation]

\* ProbsMetric(format, scalable, metric_calculation), held under its key
ProbsMetric(key, fmt, scalable, metric_calculation) ==
    [name |-> key, format |-> fmt, scalable |-> scalable,
     metric_calculation |-> metric_calculation]

\* The callables handed to the metrics.  word_overlap divides by the length
\* of the generated text; length_ratio may exceed 1; log_likelihood is
\* negative for an unlikely sequence, and above 1 where it is a score.
Calculate(fn, a, b) ==
    CASE fn = "word_overlap" ->
            IF a = "" THEN Raised("ZeroDivisionError")
            ELSE IF a = b THEN Returned(Num(1)) ELSE Returned(37)
      [] fn = "length_ratio" ->
            IF a = b THEN Returned(Num(1)) ELSE IF a = "" THEN Returned(0) ELSE Returned(150)
      [] fn = "log_likelihood" ->
            IF a = 1 THEN Returned(-50) ELSE IF a = 2 THEN Returned(150) ELSE Returned(37)

word_overlap == GeneratedTextMetric("word_overlap", "{:.2f}", TRUE, "word_overlap")
length_ratio == GeneratedTextMetric("length_ratio", "{:.1f}", FALSE, "length_ratio")
log_likelihood == ProbsMetric("log_likelihood", "{:.4f}", TRUE, "log_likelihood")

MetricNames == {"word_overlap", "length_ratio", "log_likelihood"}

\* the pairs of dicts a component is constructed with
MetricMaps ==
    {<<<<word_overlap, length_ratio>>, <<>>>>,
     <<<<length_ratio, word_overlap>>, <<>>>>,
     <<<<word_overlap>>, <<log_likelihood>>>>}

\* most candidates of one call
MaxCand == 2

Texts == {"", "hello"}
LabelText == "hello"
\* a list of k tensors; the tensor at position i is held as i
Tensors(k) == [i \in 1..k |-> i]
TensorLists == {Tensors(k) : k \in 0..MaxCand}
\* the encoded lists: one tensor per candidate, or the last one missing
EncodedLists == {Tensors(k) : k \in (MaxCand - 1)..MaxCand}

DisplayElements == {"predicted", "target"}

\* mutant: the probability metrics come first
create_ordering_probs_first(gen_metrics, probs_metrics) ==
    Keys(probs_metrics) \o Keys(gen_metrics)

\* create_ordering, line 79:
\* list(metrics_on_generated_text.keys()) + list(metrics_on_probs.keys())
create_ordering(gen_metrics, probs_metrics) ==
    Keys(gen_metrics) \o Keys(probs_metrics)

\* _prepare_metrics_selection_frontend, lines 89-92: CheckBoxSubElement(key, True)
prepare_metrics_selection_frontend(ord) ==
    [key \in {ord[i] : i \in 1..Len(ord)} |-> TRUE]

\* lines 162-165
bar_height(metric_description, result) ==
    IF metric_description.scalable
    THEN Min(result * 100, Num(FullBar))
    ELSE Num(FullBar)

\* line 166: metric_description.format.format(result), held as the format
\* string and the number it is applied to
bar_annotation(metric_description, result) == <<metric_description.format, result>>

\* the locals of one run of the candidate loop body
NoBars == [bar_names |-> <<>>, bar_heights |-> <<>>, bar_annotations |-> <<>>,
           invoked |-> <<>>, error |-> "none"]

\* lines 151-152, 157: the description held under the name, looked up in
\* _metrics_on_generated_text first
metric_description_of(metric) ==
    IF Has(metrics_on_generated_text, metric)
    THEN Get(metrics_on_generated_text, metric)
    ELSE Get(metrics_on_probs, metric)

\* lines 153-155, 158-160: metric_description.metric_calculation(...) for the
\* candidate cand = (generated_text, labels_encoded, generated_encoded)
metric_result(metric, cand, label_text) ==
    IF Has(metrics_on_generated_text, metric)
    THEN Calculate(metric_description_of(metric).metric_calculation, cand[1], label_text)
    ELSE Calculate(metric_description_of(metric).metric_calculation, cand[2], cand[3])

\* lines 149-166 for a selected metric: the name is appended before the
\* calculation, the height and the annotation after it
append_bar(acc, metric, r) ==
    IF r.error # "none"
    THEN [acc EXCEPT !.bar_names = Append(@, metric),
                     !.invoked = Append(@, metric),
                     !.error = r.error]
    ELSE [acc EXCEPT !.bar_names = Append(@, metric),
                     !.invoked = Append(@, metric),
                     !.bar_heights = Append(@, bar_height(metric_description_of(metric), r.value)),
                     !.bar_annotations =
                         Append(@, bar_annotation(metric_description_of(metric), r.value))]

\* mutant: an unselected metric is shown as a bar of height zero
bar_step_shows_zero(acc, metric, cand, label_text) ==
    IF ~select_metrics[metric]
    THEN [acc EXCEPT !.bar_names = Append(@, metric),
                     !.bar_heights = Append(@, 0),
                     !.bar_annotations = Append(@, <<"", 0>>)]
    ELSE append_bar(acc, metric, metric_result(metric, cand, label_text))

\* lines 147-166: one pass of "for name in self._ordering"
bar_step(acc, metric, cand, label_text) ==
    IF ~select_metrics[metric]
    THEN acc
    ELSE append_bar(acc, metric, metric_result(metric, cand, label_text))

\* lines 143-166: the bars of one candidate; an exception ends the loop
RECURSIVE bars(_, _, _, _)
bars(k, acc, cand, label_text) ==
    IF k > Len(ordering) \/ acc.error # "none"
    THEN acc
    ELSE bars(k + 1, bar_step(acc, ordering[k], cand, label_text), cand, label_text)

\* PieceInfo(pieceTitle, barHeights, barAnnotations, barNames), lines 169-174
PieceInfo(pieceTitle, barHeights, barAnnotations, barNames) ==
    [pieceTitle |-> pieceTitle, barHeights |-> barHeights,
     barAnnotations |-> barAnnotations, barNames |-> barNames]

\* zip(a, b, c): stops at the shortest argument
zip3(a, b, c) ==
    [i \in 1..Min(Len(a), Min(Len(b), Len(c))) |-> <<a[i], b[i], c[i]>>]

\* lines 168-175: the piece of candidate i is appended to piece_infos, unless
\* a metric calculation raised (b.error); invoked lists the metric
\* calculations called so far, as (candidate position, metric name)
append_piece(acc, i, pieceTitle, b) ==
    [piece_infos |-> IF b.error # "none" THEN acc.piece_infos
                     ELSE Append(acc.piece_infos,
                                 PieceInfo(pieceTitle, b.bar_heights,
                                           b.bar_annotations, b.bar_names)),
     invoked |-> acc.invoked \o [j \in 1..Len(b.invoked) |-> <<i, b.invoked[j]>>],
     error |-> b.error,
     candidate |-> IF b.error # "none" THEN i ELSE 0]

\* lines 133-175: the candidate loop; an exception ends it
RECURSIVE pieces(_, _, _, _)
pieces(i, acc, cands, label_text) ==
    IF i > Len(cands) \/ acc.error # "none"
    THEN acc
    ELSE pieces(i + 1,
                append_piece(acc, i, cands[i][1], bars(1, NoBars, cands[i], label_text)),
                cands, label_text)

MetricsOp(op, element, generated_text_list, r) ==
    [op |-> op, element |-> element, generated_text_list |-> generated_text_list,
     invoked |-> r.invoked, error |-> r.error]

\* _compute_n_display_metrics_for_element, lines 133-177; line 177,
\* element.set_piece_infos(piece_infos), is reached only if nothing raised
compute_n_display_metrics_for_element(op, generated_text_list, label_text, probs_encoded_list, generated_encoded_list, element) ==
    \E r \in {pieces(1, [piece_infos |-> <<>>, invoked |-> <<>>, error |-> "none",
                           candidate |-> 0],
                       zip3(generated_text_list, probs_encoded_list, generated_encoded_list),
                       label_text)} :
        /\ piece_infos' = IF r.error # "none" THEN piece_infos
                          ELSE [piece_infos EXCEPT ![element] = r.piece_infos]
        /\ lastOp' = MetricsOp(op, element, generated_text_list, r)

offMetrics == <<changed, possibilities, formatted, endpoints, pc, frame, call,
                context, word_vocab, response, c0, selected, stable>>

\* lines 179-203
compute_n_display_metrics_on_predicted(generated_text_list, label_text, probs_encoded_list, generated_encoded_list) ==
    /\ compute_n_display_metrics_for_element("on_predicted", generated_text_list, label_text,
                                             probs_encoded_list, generated_encoded_list,
                                             "predicted")
    /\ UNCHANGED <<metrics_on_generated_text, metrics_on_probs, ordering, select_metrics>>
    /\ UNCHANGED offMetrics

\* lines 205-227
compute_n_display_metrics_on_target(target, probs_target, target_encoded) ==
    /\ compute_n_display_metrics_for_element("on_target", <<target>>, target,
                                             probs_target, target_encoded, "target")
    /\ UNCHANGED <<metrics_on_generated_text, metrics_on_probs, ordering, select_metrics>>
    /\ UNCHANGED offMetrics

\* the user ticks or clears the checkbox of a metric
select_metric(metric, value) ==
    /\ metric \in DOMAIN select_metrics
    /\ select_metrics[metric] # value
    /\ select_metrics' = [select_metrics EXCEPT ![metric] = value]
    /\ lastOp' = [op |-> "select_metric", element |-> "", generated_text_list |-> <<>>,
                  invoked |-> <<>>, error |-> "none"]
    /\ UNCHANGED <<metrics_on_generated_text, metrics_on_probs, ordering, piece_infos>>
    /\ UNCHANGED offMetrics

\* MetricsMixin.__init__, lines 46-70
InitMetrics ==
    /\ ElemIdle /\ ConcIdle /\ SortIdle /\ NTPIdle
    /\ \E maps \in MetricMaps :
          /\ metrics_on_generated_text = maps[1]
          /\ metrics_on_probs = maps[2]
    /\ ordering = create_ordering(metrics_on_generated_text, metrics_on_probs)
    /\ select_metrics = prepare_metrics_selection_frontend(ordering)
    /\ piece_infos = [element \in DisplayElements |-> <<>>]
    /\ lastOp = [op |-> "init", element |-> "", generated_text_list |-> <<>>,
                 invoked |-> <<>>, error |-> "none"]

NextMetrics ==
    \/ \E generated_text_list \in SeqsUpTo(Texts, MaxCand) :
         \E probs_encoded_list \in TensorLists : \E generated_encoded_list \in EncodedLists :
            compute_n_display_metrics_on_predicted(generated_text_list, LabelText,
                                                   probs_encoded_list, generated_encoded_list)
    \/ \E target \in Texts :
         \E probs_target \in TensorLists : \E target_encoded \in EncodedLists :
            compute_n_display_metrics_on_target(target, probs_target, target_encoded)
    \/ \E metric \in MetricNames : \E value \in BOOLEAN : select_metric(metric, value)

SpecMetrics == InitMetrics /\ [][NextMetrics]_vars

----------------------------------------------------------------------------
(* Properties of the SoftmaxFormatter elements (Spec, SpecConc) *)

\* the payload the client last received for element e
Serialized(e) == formatted[e][1].content.possibilities

\* a JSON-serializable possibilities payload: a list of Continuation objects
SerializablePayload(poss) ==
    /\ DOMAIN poss = 1..Len(poss)
    /\ \A k \in 1..Len(poss) :
        /\ DOMAIN poss[k] = {"is_long", "content", "probs"}
        /\ poss[k].is_long \in BOOLEAN
        /\ poss[k].content \in {ElemVocab[i] : i \in 1..Len(ElemVocab)}
        /\ Len(poss[k].probs) = 1
        /\ poss[k].probs[1] \in Nat

\* C1 as stated: an element that has been serialized is dirty exactly when
\* its payload differs from what was last serialized, and a format() step
\* clears the flag of the serialized element.
C1_DirtyExactlyWhenPayloadChanged ==
    \A e \in Elems :
        /\ formatted[e] # None => (changed[e] <=> possibilities[e] # Serialized(e))
        /\ (lastOp.op = "format" /\ lastOp.elem = e) => ~changed[e]

\* C1 amended: an element is dirty exactly when it was assigned through the
\* possibilities setter since it was last serialized, whether or not the
\* assigned value differs from the serialized one: a setter step marks its
\* element, a format() step returns the current payload of its element and
\* clears that element's flag, and every other flag stays as it was.
C1_DirtyExactlyWhenAssigned ==
    [][\A e \in Elems :
        /\ changed'[e] =
              IF lastOp'.elem = e /\ lastOp'.op = "setter" THEN TRUE
              ELSE IF lastOp'.elem = e /\ lastOp'.op = "format" THEN FALSE
              ELSE changed[e]
        /\ (lastOp'.elem = e /\ lastOp'.op = "format") =>
              Serialized(e)' = possibilities[e]]_vars

C1_Witness ==
    /\ lastOp.op = "setter"
    /\ ~lastOp.changedBefore
    /\ changed[lastOp.elem]
    /\ formatted[lastOp.elem] # None
    /\ possibilities[lastOp.elem] = Serialized(lastOp.elem)

\* C2: whenever the payload of an element differs from the value format()
\* last returned for it, the element is marked changed.
C2_StalePayloadIsMarked ==
    \A e \in Elems :
        (formatted[e] # None /\ possibilities[e] # Serialized(e)) => changed[e]

\* C3: the payload is serializable initially and after every step, dirty or
\* not, and the only step in which an element's changed flag goes from true
\* to false is a format() of that element.
C3_ClearedOnlyByFormat ==
    /\ \A e \in Elems : SerializablePayload(possibilities[e])
    /\ [][\A e \in Elems :
            /\ SerializablePayload(possibilities'[e])
            /\ (changed[e] /\ ~changed'[e]) =>
                   (lastOp'.op = "format" /\ lastOp'.elem = e)]_vars

C3_Witness ==
    /\ lastOp.op = "format"
    /\ lastOp.changedBefore
    /\ ~changed[lastOp.elem]
    /\ possibilities[lastOp.elem] # <<>>

\* C4 as stated: format() leaves the changed flag of its element as it was.
C4_FormatLeavesFlag ==
    lastOp.op = "format" => changed[lastOp.elem] = lastOp.changedBefore

\* C4 amended: format() itself sets the changed flag of the element it
\* serializes to false, whatever it was, and leaves the payloads and the
\* flags of all other elements as they were.
C4_FormatClearsOwnFlag ==
    [][\A e \in Elems :
        (lastOp'.op = "format" /\ lastOp'.elem = e) =>
            /\ ~changed'[e]
            /\ possibilities' = possibilities
            /\ Serialized(e)' = possibilities[e]
            /\ \A o \in Elems \ {e} : changed'[o] = changed[o]]_vars

C4_Witness ==
    /\ lastOp.op = "format"
    /\ lastOp.changedBefore
    /\ ~changed[lastOp.elem]
    /\ \E o \in Elems \ {lastOp.elem} : changed[o]

\* C5: with the setter and format() interleaved, once no thread is inside
\* either of them, an element whose flag is false holds exactly the payload
\* that was last serialized (no assigned value is left unserialized and
\* unmarked).
C5_NoDroppedMark ==
    (\A t \in Threads : pc[t] = "idle") =>
        \A e \in Elems :
            (formatted[e] # None /\ ~changed[e]) => possibilities[e] = Serialized(e)

----------------------------------------------------------------------------
(* Properties of assign_words_to_probs / create_continuations (SpecSort) *)

\* the (token, probability) pairs a finished call returned
OutPairs ==
    LET out == call.out[1].value
    IN  IF call.fn = "assign_words_to_probs"
        THEN [k \in 1..Len(out) |-> <<out[k].content, out[k].probs[1]>>]
        ELSE [k \in 1..Len(out) |-> <<out[k].token, out[k].prob>>]

\* res lists, for distinct vocabulary indices in descending order of
\* probability and, for equal probabilities, ascending order of index, the
\* word at the index with 100 times the probability at the index
SortedByProbThenIndex(res, probs, vocab) ==
    \E idx \in [1..Len(res) -> 1..Len(probs)] :
        /\ \A k \in 1..Len(res) :
            res[k] = <<vocab[idx[k]], probs[idx[k]] * 100>>
        /\ \A k, l \in 1..Len(res) :
            k < l => \/ probs[idx[k]] > probs[idx[l]]
                     \/ probs[idx[k]] = probs[idx[l]] /\ idx[k] < idx[l]

\* C6: for inputs of equal length the call returns at most N continuations,
\* sorted descending by probability, ties in vocabulary order, each token
\* with 100 times the probability at its own index; vocabulary [a,b,c] with
\* probabilities [0.1,0.7,0.2] and N = 2 gives [(b,70),(c,20)].
C6_TopNSortedScaled ==
    (call.fn \in {"assign_words_to_probs", "create_continuations"}
        /\ Len(call.probs) = Len(call.vocab)) =>
        /\ call.out[1].error = "none"
        /\ Len(OutPairs) <= call.n
        /\ SortedByProbThenIndex(OutPairs, call.probs, call.vocab)
        /\ (call.probs = <<1, 7, 2>> /\ call.vocab = <<"a", "b", "c">> /\ call.n = 2)
              => OutPairs = << <<"b", 700>>, <<"c", 200>> >>

C6_Witness ==
    /\ call.fn = "create_continuations"
    /\ call.probs = <<2, 1, 2>>
    /\ call.vocab = <<"a", "b", "c">>
    /\ call.n = 2
    /\ OutPairs = << <<"a", 200>>, <<"c", 200>> >>

\* C7: a call whose probability vector and vocabulary differ in length fails
\* with DimensionMismatch and returns no list.
C7_MismatchRaises ==
    (call.fn \in {"assign_words_to_probs", "create_continuations"}
        /\ Len(call.probs) # Len(call.vocab)) =>
        /\ call.out[1].error = "DimensionMismatch"
        /\ call.out[1].value = <<>>

----------------------------------------------------------------------------
(* Properties of the NextTokenPredictionComponent (SpecNTP) *)

\* append_to_context applied left to right over the tokens, starting from ctx
RECURSIVE AppendAll(_, _)
AppendAll(ctx, tokens) ==
    IF tokens = <<>>
    THEN ctx
    ELSE AppendAll(append_to_context(ctx, Head(tokens)), Tail(tokens))

\* C8: a select(token) whose append_to_context returned leaves the stored
\* context equal to append_to_context(context before, token), and its
\* response carries that context with the predictions for it; the context
\* is always append_to_context applied left to right over the selected
\* tokens, starting from the initial context, whatever fetches came between.
C8_SelectAppends ==
    /\ (lastOp.op = "select" /\ lastOp.contextBefore # None
            /\ response.error # "append_to_context") =>
        /\ context = Some(append_to_context(lastOp.contextBefore[1], lastOp.token))
        /\ response.result = "success" =>
            /\ response.context = format_context(context[1])
            /\ Returned(response.continuations) =
                   get_next_token_predictions(component, context[1])
    /\ context # None => context[1] = AppendAll(c0, selected)

C8_Witness ==
    /\ lastOp.op = "select"
    /\ response.result = "success"
    /\ Len(selected) >= 2
    /\ response.context = AppendAll(c0, selected)
    /\ get_next_token_predictions(component, response.context) #
           get_next_token_predictions(component, lastOp.contextBefore[1])

\* C9: a fetch() leaves the context and the vocabulary as they were, and a
\* fetch that answers returns the payload that the last answered fetch or
\* select returned for the same context and vocabulary.
C9_FetchReadsOnly ==
    [][lastOp'.op = "fetch" =>
        /\ context' = context
        /\ word_vocab' = word_vocab
        /\ (response'.result = "success" /\ stable # None) =>
               Payload(response') = stable[1]]_vars

C9_Witness ==
    /\ lastOp.op = "fetch"
    /\ lastOp.hadStable
    /\ response.result = "success"
    /\ selected # <<>>
    /\ Payload(response) = stable[1]

\* the tokens of the continuations offered for a context
Offered(ctx) ==
    IF ctx = None
    THEN {}
    ELSE LET r == get_next_token_predictions(component, ctx[1])
         IN  {r.value[k].token : k \in 1..Len(r.value)}

\* C10: on an initialized component, a select whose token is not among the
\* continuations offered for the current context, and in which no hook
\* raised, gets an error result and leaves the context as it was.
C10_InvalidSelectionRejected ==
    (lastOp.op = "select" /\ lastOp.contextBefore # None /\ word_vocab # None
        /\ response.result # "raise"
        /\ lastOp.token \notin Offered(lastOp.contextBefore)) =>
        /\ response.result = "error"
        /\ context = lastOp.contextBefore

\* the exceptions of the hooks themselves (the collaborators failing)
HookErrors == {"append_to_context", "get_next_token_predictions"}

\* C11: a fetch or select on a component whose context is set but whose
\* word_vocab is still None, and in which no hook failed of its own, fails
\* with UninitializedVocabulary, and no fetch or select changes word_vocab.
C11_UninitializedVocabulary ==
    (lastOp.op \in {"fetch", "select"} /\ word_vocab = None
        /\ lastOp.contextBefore # None /\ response.error \notin HookErrors) =>
        response.error = "UninitializedVocabulary"

\* C12: a fetch or select before initialize_context fails with the
\* structured error UninitializedContext and leaves the context unset.
C12_UninitializedContext ==
    (lastOp.op \in {"fetch", "select"} /\ lastOp.contextBefore = None) =>
        /\ response.result = "error"
        /\ response.error = "UninitializedContext"
        /\ context = None

\* C13: when a hook raises during fetch or select, the caller gets a
\* structured response with result "error", not the exception.
C13_HookErrorsAreCaught ==
    (lastOp.op \in {"fetch", "select"} /\ response.error \in HookErrors) =>
        response.result = "error"

\* C20: a select(token) whose predictions fail has already stored
\* append_to_context(old context, token), and the fetch that follows it
\* and answers reports that context.
C20_SelectCommitsBeforePredicting ==
    [][/\ (lastOp'.op = "select" /\ context # None
              /\ response'.error \in {"get_next_token_predictions", "TypeError"}) =>
            /\ response'.result = "raise"
            /\ context' = Some(append_to_context(context[1], lastOp'.token))
       /\ (lastOp.op = "select" /\ lastOp.contextBefore # None
              /\ response.error \in {"get_next_token_predictions", "TypeError"}
              /\ lastOp'.op = "fetch" /\ response'.result = "success") =>
            response'.context =
                format_context(append_to_context(lastOp.contextBefore[1], lastOp.token))
      ]_vars

C20_Witness ==
    /\ lastOp.op = "select"
    /\ lastOp.contextBefore # None
    /\ response.result = "raise"
    /\ response.error = "get_next_token_predictions"
    /\ word_vocab # None
    /\ context = Some(append_to_context(lastOp.contextBefore[1], lastOp.token))
    /\ context # lastOp.contextBefore

\* C18: two racing selects are serialized: once no select is in flight the
\* context is the initial context with every stored token appended, in the
\* order of the stores, so no append is lost.
C18_RacingSelectsSerialized ==
    (\A t \in Requests : pc[t] = "idle") =>
        context = Some(AppendAll(c0, selected))

\* the last call was compute_n_display_metrics_on_predicted / _on_target
Computed == lastOp.op \in {"on_predicted", "on_target"}
Selected(metric) == select_metrics[metric]

\* C14: in every piece a call writes, barNames is the ordering restricted to
\* the selected metrics, with one height and one annotation per name, and
\* the calculations invoked are those of the selected metrics, once per
\* piece.
C14_OnlySelectedMetrics ==
    Computed =>
        /\ \A j \in 1..Len(lastOp.invoked) : Selected(lastOp.invoked[j][2])
        /\ lastOp.error = "none" =>
            /\ \A i \in 1..Len(piece_infos[lastOp.element]) :
                LET piece == piece_infos[lastOp.element][i]
                IN  /\ piece.barNames = SelectSeq(ordering, Selected)
                    /\ Len(piece.barHeights) = Len(piece.barNames)
                    /\ Len(piece.barAnnotations) = Len(piece.barNames)
            /\ Len(lastOp.invoked) =
                   Len(piece_infos[lastOp.element]) * Len(SelectSeq(ordering, Selected))

C14_Witness ==
    /\ Computed
    /\ lastOp.error = "none"
    /\ Len(piece_infos[lastOp.element]) = MaxCand
    /\ \E metric \in DOMAIN select_metrics : ~Selected(metric)
    /\ \E metric \in DOMAIN select_metrics : Selected(metric)

\* C15: every bar a call writes is within [0, 100] for a scalable metric and
\* exactly 100 for a metric that is not scalable.
C15_BarHeightsClamped ==
    (Computed /\ lastOp.error = "none") =>
        \A i \in 1..Len(piece_infos[lastOp.element]) :
            LET piece == piece_infos[lastOp.element][i]
            IN  \A k \in 1..Len(piece.barHeights) :
                    IF metric_description_of(piece.barNames[k]).scalable
                    THEN 0 <= piece.barHeights[k] /\ piece.barHeights[k] <= Num(100)
                    ELSE piece.barHeights[k] = Num(100)

\* the dicts a and b hold the same items, whatever their insertion order
SameItems(a, b) == {a[i] : i \in 1..Len(a)} = {b[i] : i \in 1..Len(b)}

\* C16, as claimed: the ordering is the same for the same maps filled in any
\* insertion order.
C16_OrderingIgnoresInsertionOrder ==
    \A maps \in MetricMaps :
        (SameItems(maps[1], metrics_on_generated_text)
            /\ SameItems(maps[2], metrics_on_probs)) =>
            create_ordering(maps[1], maps[2]) = ordering

\* C16, amended: the ordering is the names of the generated-text metrics in
\* their insertion order followed by the names of the probability metrics in
\* theirs, and calling create_ordering again on the same maps gives it again.
C16_OrderingFollowsInsertionOrder ==
    /\ Len(ordering) = Len(metrics_on_generated_text) + Len(metrics_on_probs)
    /\ \A i \in 1..Len(metrics_on_generated_text) :
          ordering[i] = metrics_on_generated_text[i].name
    /\ \A j \in 1..Len(metrics_on_probs) :
          ordering[Len(metrics_on_generated_text) + j] = metrics_on_probs[j].name
    /\ create_ordering(metrics_on_generated_text, metrics_on_probs) = ordering

C16_Witness ==
    /\ metrics_on_generated_text = <<word_overlap, length_ratio>>
    /\ ordering = <<"word_overlap", "length_ratio">>

\* C17: a metric calculation that raises is reported as a
\* MetricComputationError and every other selected metric is still
\* calculated.
C17_MetricErrorIsContained ==
    (Computed /\ lastOp.error # "none") =>
        /\ lastOp.error = "MetricComputationError"
        /\ \A metric \in DOMAIN select_metrics :
              Selected(metric) =>
                  \E j \in 1..Len(lastOp.invoked) : lastOp.invoked[j][2] = metric

\* C19: a call that returns writes one piece per candidate of
\* generated_text_list, in order, titled with the candidate's text.
C19_OnePiecePerCandidate ==
    (Computed /\ lastOp.error = "none") =>
        /\ Len(piece_infos[lastOp.element]) = Len(lastOp.generated_text_list)
        /\ \A i \in 1..Len(piece_infos[lastOp.element]) :
              piece_infos[lastOp.element][i].pieceTitle = lastOp.generated_text_list[i]

====
